---------------------------- MODULE Spec2Model ----------------------------
(***************************************************************************)
(* Model of pdf2md's text-to-Markdown conversion (src/src/main.rs,         *)
(* convert_to_markdown and its helpers).                                   *)
(*                                                                         *)
(* A Rust String / &str is modelled as a sequence of characters, each      *)
(* character being a one-character TLA+ string: "Hi" is <<"H", "i">>.      *)
(* Only ASCII characters occur in the inputs, so byte length (str::len)    *)
(* and character count coincide.                                           *)
(***************************************************************************)
EXTENDS Naturals, Sequences, FiniteSets

(***************************************************************************)
(* Bounds of the model.                                                    *)
(***************************************************************************)
\* Longest input text enumerated character by character over Alphabet.
MaxLen == 4
\* Largest number of physical lines of an input assembled from CoreLines.
MaxLines == 4
\* The same two bounds for the inputs of FairSpec, the specification the
\* termination property is checked under.
MaxTermLen == 3
MaxTermLines == 2

(***************************************************************************)
(* Program constants.                                                      *)
(***************************************************************************)
\* is_likely_heading: line.len() < 100
LikelyHeadingMaxLen == 100
\* determine_heading_level: text.len() < 30
ShortHeadingMaxLen == 30

(***************************************************************************)
(* Characters.                                                             *)
(***************************************************************************)
LowerLetters ==
    << "a","b","c","d","e","f","g","h","i","j","k","l","m",
       "n","o","p","q","r","s","t","u","v","w","x","y","z" >>
UpperLetters ==
    << "A","B","C","D","E","F","G","H","I","J","K","L","M",
       "N","O","P","Q","R","S","T","U","V","W","X","Y","Z" >>

Range(f) == { f[k] : k \in DOMAIN f }

\* the element of a one-element set
The(S) == CHOOSE x \in S : TRUE

\* the vertical tab, U+000B (TLA+ has no escape for it)
VT == ""
\* the form feed, U+000C
FF == "\f"
\* char::is_whitespace and the regex class \s, restricted to ASCII: space,
\* tab, line feed, vertical tab, form feed, carriage return
Whitespace == { " ", "\t", "\n", VT, FF, "\r" }
\* the regex class \d, restricted to ASCII
Digits == { "0","1","2","3","4","5","6","7","8","9" }
\* char::is_alphabetic, restricted to ASCII
is_alphabetic(c) == c \in Range(LowerLetters) \cup Range(UpperLetters)

\* char::to_uppercase, restricted to ASCII
UpperChar(c) ==
    IF c \in Range(LowerLetters)
    THEN UpperLetters[CHOOSE k \in DOMAIN LowerLetters : LowerLetters[k] = c]
    ELSE c

\* str::to_uppercase
to_uppercase(s) == [ k \in 1..Len(s) |-> UpperChar(s[k]) ]

(***************************************************************************)
(* String primitives of the standard library used by the program.          *)
(***************************************************************************)
NLNL == << "\n", "\n" >>

\* str::ends_with
ends_with(s, suffix) ==
    /\ Len(suffix) <= Len(s)
    /\ SubSeq(s, Len(s) - Len(suffix) + 1, Len(s)) = suffix

\* str::starts_with
starts_with(s, prefix) ==
    /\ Len(prefix) <= Len(s)
    /\ SubSeq(s, 1, Len(prefix)) = prefix

\* str::contains(char)
contains(s, c) == \E k \in 1..Len(s) : s[k] = c

\* whether pattern occurs in s as a contiguous substring
contains_str(s, pattern) ==
    \E k \in 0..(Len(s) - Len(pattern)) :
        SubSeq(s, k + 1, k + Len(pattern)) = pattern

\* str::repeat for a one-character string
repeat(c, n) == [ k \in 1..n |-> c ]

\* least and greatest element of a non-empty set of positions
Min(T) == CHOOSE m \in T : \A j \in T : m <= j
Max(T) == CHOOSE m \in T : \A j \in T : m >= j

\* number of consecutive characters of s, from position k on, that lie in S:
\* the run ends before the first position that holds another character
Run(s, k, S) ==
    LET stops == { m \in k..Len(s) : s[m] \notin S }
    IN  IF stops # {} THEN Min(stops) - k
        ELSE IF k <= Len(s) THEN Len(s) - k + 1 ELSE 0

\* number of consecutive characters of s, from position k on, outside S
RunNot(s, k, S) ==
    LET stops == { m \in k..Len(s) : s[m] \in S }
    IN  IF stops # {} THEN Min(stops) - k
        ELSE IF k <= Len(s) THEN Len(s) - k + 1 ELSE 0

\* number of consecutive characters of s, from position k backwards, in S
RunBack(s, k, S) ==
    LET stops == { m \in 1..k : s[m] \notin S }
    IN  IF stops # {} THEN k - Max(stops) ELSE k

\* str::trim: leading and trailing whitespace removed
trim(s) ==
    LET rest == SubSeq(s, Run(s, 1, Whitespace) + 1, Len(s))
    IN  SubSeq(rest, 1, Len(rest) - RunBack(rest, Len(rest), Whitespace))

\* str::split_inclusive('\n'): pieces that keep their terminating newline;
\* the empty string has no piece
RECURSIVE split_inclusive(_)
split_inclusive(s) ==
    IF s = << >> THEN << >>
    ELSE LET n == RunNot(s, 1, { "\n" })
         IN  IF n = Len(s) THEN << s >>
             ELSE << SubSeq(s, 1, n + 1) >>
                  \o split_inclusive(SubSeq(s, n + 2, Len(s)))

\* the map of str::lines over a piece: strip one "\n", and then one "\r"
LinesMap(piece) ==
    IF ~ ends_with(piece, << "\n" >>) THEN piece
    ELSE LET l == SubSeq(piece, 1, Len(piece) - 1)
         IN  IF ends_with(l, << "\r" >>) THEN SubSeq(l, 1, Len(l) - 1) ELSE l

\* variant: the text split at every "\n", as str::split('\n') does, so that
\* the empty text and a final newline each yield an empty last line
str_lines_split(s) ==
    LET ends == { k \in 1..(Len(s) + 1) : k = Len(s) + 1 \/ s[k] = "\n" }
        end(j) == CHOOSE k \in ends : Cardinality({ m \in ends : m <= k }) = j
    IN  [ j \in 1..Cardinality(ends) |->
            SubSeq(s, IF j = 1 THEN 1 ELSE end(j - 1) + 1, end(j) - 1) ]

\* content.lines(): the physical lines of the text, in order
str_lines(s) ==
    LET pieces == split_inclusive(s)
    IN  [ k \in 1..Len(pieces) |-> LinesMap(pieces[k]) ]

\* str::split_whitespace: the maximal runs of non-whitespace characters, in
\* order.  A word starts at a non-whitespace character that is the first
\* character or follows whitespace; the j-th word starts at the j-th start.
split_whitespace(s) ==
    LET starts   == { k \in 1..Len(s) :
                        s[k] \notin Whitespace
                        /\ (k = 1 \/ s[k - 1] \in Whitespace) }
        start(j) == CHOOSE k \in starts :
                        Cardinality({ m \in starts : m <= k }) = j
    IN  [ j \in 1..Cardinality(starts) |->
            SubSeq(s, start(j), start(j) + RunNot(s, start(j), Whitespace) - 1) ]

(***************************************************************************)
(* The helpers of convert_to_markdown.                                     *)
(***************************************************************************)

\* heading_regex.captures(s) for the pattern ^\s*(\d+\.\s+|#+\s+)?(.+)$ :
\* group 1 (the prefix) is a run of digits, a dot and a run of whitespace, or
\* a run of '#' and a run of whitespace; group 2 (the text) is the non-empty
\* rest.  The quantifiers are greedy and give characters back only when the
\* rest would otherwise be empty.  A line holds no "\n", so '.' matches every
\* character of it.
heading_regex_captures(s) ==
    LET ws0    == Run(s, 1, Whitespace)
        p      == ws0 + 1
        d      == Run(s, p, Digits)
        h      == Run(s, p, { "#" })
        core   == IF d >= 1 /\ p + d <= Len(s) /\ s[p + d] = "." THEN d + 1
                  ELSE h
        w      == IF core >= 1 THEN Run(s, p + core, Whitespace) ELSE 0
        rest   == Len(s) - (ws0 + core + w)
        plen   == IF core >= 1 /\ w >= 1 /\ rest >= 1 THEN core + w
                  ELSE IF core >= 1 /\ w >= 2 THEN core + w - 1
                  ELSE 0
        from   == IF plen = 0 /\ p > Len(s) /\ ws0 >= 1 THEN Len(s) ELSE p + plen
    IN  [ matched |-> s # << >>,
          prefix  |-> SubSeq(s, p, p + plen - 1),
          text    |-> SubSeq(s, from, Len(s)) ]

\* is_likely_heading
is_likely_heading(line) ==
    /\ Len(line) < LikelyHeadingMaxLen
    /\ ~ ends_with(line, << "." >>)
    /\ ~ contains(line, ",")

\* variant: the fallback depth is 4
determine_heading_level_deep(prefix, text) ==
    IF starts_with(prefix, << "1", "." >>) THEN 1
    ELSE IF starts_with(prefix, << "1", ".", "1" >>)
            \/ starts_with(prefix, << "2", "." >>) THEN 2
    ELSE IF Len(text) < ShortHeadingMaxLen /\ to_uppercase(text) = text THEN 1
    ELSE 4

\* determine_heading_level
determine_heading_level(prefix, text) ==
    IF starts_with(prefix, << "1", "." >>) THEN 1
    ELSE IF starts_with(prefix, << "1", ".", "1" >>)
            \/ starts_with(prefix, << "2", "." >>) THEN 2
    ELSE IF Len(text) < ShortHeadingMaxLen /\ to_uppercase(text) = text THEN 1
    ELSE 3

\* the test of detect_and_format on one word
is_shouted(word) ==
    /\ to_uppercase(word) = word
    /\ Len(word) > 1
    /\ \E k \in 1..Len(word) : is_alphabetic(word[k])

\* the piece detect_and_format pushes for one word
format_word(word) ==
    IF is_shouted(word)
    THEN << "*", "*" >> \o word \o << "*", "*", " " >>
    ELSE word \o << " " >>

\* detect_and_format
\* the loop of detect_and_format: result after pushing every word in order
RECURSIVE push_words(_)
push_words(words) ==
    IF words = << >> THEN << >>
    ELSE format_word(Head(words)) \o push_words(Tail(words))

\* detect_and_format: split into words, push every word, trim the result.
\* (Each stage is bound to its value before the next one reads it.)
detect_and_format(text) ==
    The({ trim(result) :
            result \in { push_words(words) :
                           words \in { split_whitespace(text) } } })

\* the condition of line 83: the line is emitted as a heading
is_heading(trimmed) ==
    LET caps == heading_regex_captures(trimmed)
    IN  /\ caps.matched
        /\ contains(caps.prefix, ".") \/ is_likely_heading(trimmed)

\* variant: the heading's body text goes through detect_and_format
heading_block_formatted(trimmed) ==
    LET caps  == heading_regex_captures(trimmed)
        level == determine_heading_level(caps.prefix, trimmed)
    IN  repeat("#", level) \o << " " >> \o detect_and_format(caps.text) \o NLNL

\* the string pushed for a heading (lines 84-85)
heading_block(trimmed) ==
    LET caps  == heading_regex_captures(trimmed)
        level == determine_heading_level(caps.prefix, trimmed)
    IN  repeat("#", level) \o << " " >> \o caps.text \o NLNL

\* variant: a blank line adds no break to an accumulator that ends with one
push_blank_collapsing(md) == IF ends_with(md, NLNL) THEN md ELSE md \o NLNL

\* the accumulator after a blank line (line 73)
push_blank(md) == md \o NLNL

\* variant: the space is pushed whenever the accumulator is non-empty
push_paragraph_always_space(md, block_type, formatted) ==
    IF block_type = "p"
    THEN IF md # << >>
         THEN md \o << " " >> \o formatted
         ELSE md \o formatted
    ELSE md \o formatted \o NLNL

\* the accumulator after a paragraph line (lines 95-105)
push_paragraph(md, block_type, formatted) ==
    IF block_type = "p"
    THEN IF ~ ends_with(md, NLNL) /\ md # << >>
         THEN md \o << " " >> \o formatted
         ELSE md \o formatted
    ELSE md \o formatted \o NLNL

(***************************************************************************)
(* Input texts.  An input is any text of at most MaxLen characters over    *)
(* Alphabet, or at most MaxLines of the core lines joined by "\n", or one  *)
(* of the scenario texts.                                                  *)
(***************************************************************************)
Alphabet == { "A", "b", " ", "\n", ".", ",", "1", "#" }

\* test.rs:15
HelloWorld ==
    << "H", "e", "l", "l", "o", " ", "W", "o", "r", "l", "d" >>
\* test.rs:20, first line
Introduction ==
    << "1", ".", " ", "I", "N", "T", "R", "O", "D", "U", "C", "T", "I",
       "O", "N" >>
\* test.rs:20, second line
SampleText ==
    << "T", "h", "i", "s", " ", "i", "s", " ", "a", " ", "s", "a", "m",
       "p", "l", "e", " ", "t", "e", "x", "t" >>
\* test.rs:25
ThisIsImportant ==
    << " ", " ", " ", "T", "H", "I", "S", " ", "I", "S", " ", "I", "M",
       "P", "O", "R", "T", "A", "N", "T", " ", " ", " " >>
\* test.rs:30, first line
FirstParagraph ==
    << "F", "i", "r", "s", "t", " ", "p", "a", "r", "a", "g", "r", "a",
       "p", "h" >>
\* test.rs:30, third line
SecondParagraph ==
    << "S", "e", "c", "o", "n", "d", " ", "p", "a", "r", "a", "g", "r",
       "a", "p", "h" >>
\* a line numbered 1.1, short and all uppercase
Overview ==
    << "1", ".", "1", " ", "O", "V", "E", "R", "V", "I", "E", "W" >>
\* a line numbered 1.1, in mixed case
SomeHeading ==
    << "1", ".", "1", " ", "S", "o", "m", "e", " ", "H", "e", "a", "d",
       "i", "n", "g" >>
\* a line numbered 2.
Scope ==
    << "2", ".", " ", "S", "c", "o", "p", "e" >>
\* a sentence: it ends with a full stop
FirstOne ==
    << "F", "i", "r", "s", "t", " ", "o", "n", "e", "." >>
\* a line with a comma and two shouted words
Note ==
    << "N", "O", "T", "E", ",", " ", "t", "h", "i", "s", " ", "i", "s",
       " ", "I", "T" >>
\* a whitespace-only line
Spaces ==
    << " ", "\t", " " >>
\* the empty line
Empty == << >>
\* 100 characters, no full stop and no comma: not shorter than 100
Long100 == repeat("x", LikelyHeadingMaxLen)
\* 30 upper-case characters: not shorter than 30
Caps30 == repeat("A", ShortHeadingMaxLen)

\* the lines ls joined by the separator sep
RECURSIVE Join(_, _)
Join(ls, sep) ==
    IF ls = << >> THEN << >>
    ELSE IF Len(ls) = 1 THEN ls[1]
    ELSE ls[1] \o sep \o Join(Tail(ls), sep)

LF == << "\n" >>
CRLF == << "\r", "\n" >>

\* one line of each kind the loop distinguishes: blank (empty, whitespace
\* only), heading (numbered, unnumbered), paragraph (plain, with emphasis)
CoreLines == { Empty, Spaces, Introduction, HelloWorld, FirstOne, Note }

\* the texts of test_convert_to_markdown and further single cases
Scenario2 == Join(<< Introduction, SampleText >>, LF)
Scenario4 == Join(<< FirstParagraph, Empty, SecondParagraph >>, LF)
\* two sentences with a page break, a line that holds a form feed only,
\* between them
PageBreak == Join(<< FirstOne, << FF >>, Note >>, LF)
\* a numbered line whose prefix ends with a form feed
NumberedFF == << "1", ".", FF, "X" >>
\* a heading between lines of vertical tabs and form feeds
VerticalTabs == Join(<< << VT >>, << VT, "A", "b", FF >>, << FF, VT >> >>, LF)

Scenarios ==
    { HelloWorld, Scenario2, ThisIsImportant, Scenario4,
      Overview, SomeHeading, Scope, Long100, Caps30,
      Join(<< Scope, FirstOne, Spaces, Note, Empty >>, CRLF),
      PageBreak, NumberedFF, VerticalTabs }

\* texts of at most n characters over Alphabet
Texts(n) == UNION { [1..k -> Alphabet] : k \in 0..n }
\* texts of at most n core lines
Assembled(n) ==
    { Join(ls, LF) : ls \in UNION { [1..k -> CoreLines] : k \in 0..n } }

Inputs == Texts(MaxLen) \cup Assembled(MaxLines) \cup Scenarios
TermInputs == Texts(MaxTermLen) \cup Assembled(MaxTermLines) \cup Scenarios

(***************************************************************************)
(* State of one call of convert_to_markdown.                               *)
(***************************************************************************)
VARIABLES
    content,             \* the argument
    lines,               \* content.lines(), the physical lines
    i,                   \* number of lines the iterator has yielded
    markdown,            \* the accumulator
    current_block_type,  \* "p" (paragraph open) or "h" (heading just closed)
    formatted_line,      \* the local of line 92: << >> when the iteration
                         \* did not bind it, << s >> when it holds s
    pc,                  \* "loop" inside the while loop, "done" after return
    result,              \* the returned Result
    prev_markdown,       \* history: markdown when the last iteration began
    prev_block_type      \* history: current_block_type at that moment

vars == << content, lines, i, markdown, current_block_type, formatted_line,
           pc, result, prev_markdown, prev_block_type >>

Pending == [ tag |-> "Pending", value |-> << >> ]
Ok(v)   == [ tag |-> "Ok", value |-> v ]

\* lines 61-68, for an argument drawn from S
InitWith(S) ==
    /\ content \in S
    /\ lines = str_lines(content)
    /\ i = 0
    /\ markdown = << >>
    /\ current_block_type = "p"
    /\ formatted_line = << >>
    /\ pc = "loop"
    /\ result = Pending
    /\ prev_markdown = << >>
    /\ prev_block_type = "p"

Init == InitWith(Inputs)
InitTerm == InitWith(TermInputs)

\* lines.next() yields a line
HasNext == pc = "loop" /\ i < Len(lines)

\* what every iteration does besides its own effect
Advance ==
    /\ i' = i + 1
    /\ prev_markdown' = markdown
    /\ prev_block_type' = current_block_type
    /\ UNCHANGED << content, lines, pc, result >>

\* lines 70-75: the next line is blank
BlankLine ==
    /\ HasNext
    /\ \E trimmed \in { trim(lines[i + 1]) } :
          /\ trimmed = << >>
          /\ markdown' = push_blank(markdown)
    /\ formatted_line' = << >>
    /\ UNCHANGED current_block_type
    /\ Advance

\* lines 70-71, 78-88: the next line is emitted as a heading
HeadingLine ==
    /\ HasNext
    /\ \E trimmed \in { trim(lines[i + 1]) } :
          /\ trimmed # << >>
          /\ is_heading(trimmed)
          /\ markdown' = markdown \o heading_block(trimmed)
    /\ current_block_type' = "h"
    /\ formatted_line' = << >>
    /\ Advance

\* lines 70-71, 78-83, 91-105: the next line is emitted as paragraph text
ParagraphLine ==
    /\ HasNext
    /\ \E trimmed \in { trim(lines[i + 1]) } :
          /\ trimmed # << >>
          /\ ~ is_heading(trimmed)
          /\ \E formatted \in { detect_and_format(trimmed) } :
                /\ formatted_line' = << formatted >>
                /\ markdown' = push_paragraph(markdown, current_block_type,
                                              formatted)
    /\ current_block_type' = "p"
    /\ Advance

\* line 108: the iterator is exhausted, Ok(markdown) is returned
Return ==
    /\ pc = "loop"
    /\ i = Len(lines)
    /\ pc' = "done"
    /\ result' = Ok(markdown)
    /\ UNCHANGED << content, lines, i, markdown, current_block_type,
                    formatted_line, prev_markdown, prev_block_type >>

Next == BlankLine \/ HeadingLine \/ ParagraphLine \/ Return

Spec == Init /\ [][Next]_vars

\* The loop is sequential code on one thread: a step that can be taken is
\* taken.
FairSpec == InitTerm /\ [][Next]_vars /\ WF_vars(Next)

(***************************************************************************)
(* Vocabulary of the properties.                                           *)
(***************************************************************************)
\* the line the last iteration processed, trimmed (defined when i >= 1)
LastTrimmed == trim(lines[i])
\* what the last iteration appended to the accumulator
Appended == SubSeq(markdown, Len(prev_markdown) + 1, Len(markdown))

IsBlankLine(l) == trim(l) = << >>
IsHeadingLine(l) == trim(l) # << >> /\ is_heading(trim(l))
IsParagraphLine(l) == trim(l) # << >> /\ ~ is_heading(trim(l))

\* an iteration has run, and the line it processed was of the given kind
ProcessedBlank == i >= 1 /\ IsBlankLine(lines[i])
ProcessedHeading == i >= 1 /\ IsHeadingLine(lines[i])
ProcessedParagraph == i >= 1 /\ IsParagraphLine(lines[i])

\* the last n processed lines are all blank
BlankRun(n) == n <= i /\ \A k \in (i - n + 1)..i : IsBlankLine(lines[k])

\* the last processed non-blank line is a heading
LastNonBlankIsHeading ==
    \E k \in 1..i :
        /\ IsHeadingLine(lines[k])
        /\ \A m \in (k + 1)..i : IsBlankLine(lines[m])

(***************************************************************************)
(* The expected outputs of the scenarios.                                  *)
(***************************************************************************)
\* test.rs:21
Scenario2Expected ==
    << "#", " ", "I", "N", "T", "R", "O", "D", "U", "C", "T", "I", "O",
       "N", "\n", "\n", "T", "h", "i", "s", " ", "i", "s", " ", "a", " ",
       "s", "a", "m", "p", "l", "e", " ", "t", "e", "x", "t" >>
\* the output the specification gives for "   THIS IS IMPORTANT   "
Scenario3Expected ==
    << "*", "*", "T", "H", "I", "S", "*", "*", " ", "*", "*", "I", "S",
       "*", "*", " ", "*", "*", "I", "M", "P", "O", "R", "T", "A", "N",
       "T", "*", "*" >>

(***************************************************************************)
(* Properties.                                                             *)
(***************************************************************************)

\* C1: the text "Hello World", one ordinary prose line, is returned exactly
\* as it is: no '#' marker, no '**', no trailing "\n\n".
C1_ProseLineUnchanged ==
    (pc = "done" /\ content = HelloWorld) => result = Ok(HelloWorld)

\* C2: "1. INTRODUCTION\nThis is a sample text" is returned as
\* "# INTRODUCTION\n\nThis is a sample text": a depth-1 heading with the
\* prefix stripped, then the body line unchanged, with no heading marker
\* and no trailing "\n\n".
C2_NumberedHeadingThenBody ==
    (pc = "done" /\ content = Scenario2) => result = Ok(Scenario2Expected)

\* C3: "   THIS IS IMPORTANT   " is returned as
\* "**THIS** **IS** **IMPORTANT**": every word in bold, joined by single
\* spaces, the surrounding whitespace removed, no heading marker.
C3_ShoutedLineInBold ==
    (pc = "done" /\ content = ThisIsImportant) => result = Ok(Scenario3Expected)

\* C4: wherever two paragraph lines are separated by exactly one blank
\* line, the output holds the (formatted) text of the first, exactly one
\* "\n\n" and the (formatted) text of the second, whatever precedes them.
C4_OneBlankOneSeparator ==
    pc = "done" =>
        \A k \in 1..(Len(lines) - 2) :
            ( /\ IsParagraphLine(lines[k])
              /\ IsBlankLine(lines[k + 1])
              /\ IsParagraphLine(lines[k + 2]) )
            => contains_str(markdown,
                            detect_and_format(trim(lines[k])) \o NLNL
                            \o detect_and_format(trim(lines[k + 2])))

\* C5: a line whose enumeration prefix is "1.1" is emitted as a heading of
\* depth 2, also when it is short and all uppercase.
C5_Prefix11IsDepth2 ==
    (i >= 1 /\ starts_with(LastTrimmed, << "1", ".", "1", " " >>))
    => /\ starts_with(Appended, << "#", "#", " " >>)
       /\ ends_with(Appended, NLNL)

\* C6: a blank line appends exactly "\n\n" to the accumulator, in either
\* mode and whatever the accumulator ends with, and leaves the mode as it
\* was; so after a run of n blank lines the accumulator ends with 2n
\* newline characters.
C6_BlankLineAppendsBreak ==
    /\ ProcessedBlank =>
          /\ markdown = prev_markdown \o NLNL
          /\ current_block_type = prev_block_type
    /\ \A n \in 1..i :
          BlankRun(n) => ends_with(markdown, repeat("\n", 2 * n))

\* C6 witness: a whitespace-only line has been processed right after another
\* blank line, in mode "h", on an accumulator that already ended with "\n\n".
C6_Witness ==
    /\ i >= 3
    /\ BlankRun(2)
    /\ lines[i] # << >>
    /\ current_block_type = "h"
    /\ ends_with(prev_markdown, NLNL)

\* C7: a heading line appends 1 to 3 '#', one space, the body text without
\* its prefix and "\n\n"; and while the last processed non-blank line is a
\* heading the accumulator ends with "\n\n".
C7_HeadingThenHardBreak ==
    /\ ProcessedHeading =>
          /\ markdown = prev_markdown \o Appended
          /\ \E depth \in 1..3 :
                Appended = repeat("#", depth) \o << " " >>
                           \o heading_regex_captures(LastTrimmed).text \o NLNL
          /\ current_block_type = "h"
    /\ LastNonBlankIsHeading => ends_with(markdown, NLNL)

\* C7 witness: a numbered heading has been processed after earlier output,
\* and a blank line after it.
C7_Witness ==
    /\ i >= 3
    /\ IsBlankLine(lines[i])
    /\ IsHeadingLine(lines[i - 1])
    /\ heading_regex_captures(trim(lines[i - 1])).prefix # << >>
    /\ IsParagraphLine(lines[i - 2])

\* C8: the conversion is total.  The loop ends, having taken every physical
\* line exactly once, and returns Ok; the result for "" is "".
C8_Total ==
    /\ <>(pc = "done")
    /\ [][i' = i + 1 \/ (i' = i /\ pc' = "done")]_vars
    /\ [](i <= Len(lines) /\ result.tag \in { "Pending", "Ok" })
    /\ [](pc = "done" =>
            /\ i = Len(lines)
            /\ result = Ok(markdown)
            /\ (content = << >> => result.value = << >>))

\* C8 witness: the call has returned Ok for a text of several lines, some
\* blank and some not.
C8_Witness ==
    /\ pc = "done"
    /\ result.tag = "Ok"
    /\ i >= 2
    /\ \E k \in 1..i : IsBlankLine(lines[k])
    /\ \E k \in 1..i : ~ IsBlankLine(lines[k])

\* C9 (as stated): detect_and_format is applied to every non-blank line the
\* loop processes, heading or paragraph.
C9_FormatterOnEveryLine ==
    (i >= 1 /\ ~ IsBlankLine(lines[i]))
    => formatted_line = << detect_and_format(LastTrimmed) >>

\* C9 (amended): detect_and_format is applied to every line emitted as
\* paragraph text, and its result is what is appended; it is not applied to
\* a line emitted as a heading, whose body text is appended as it is.
C9_FormatterOnParagraphsOnly ==
    /\ ProcessedParagraph =>
          /\ formatted_line = << detect_and_format(LastTrimmed) >>
          /\ \/ Appended = formatted_line[1]
             \/ Appended = << " " >> \o formatted_line[1]
             \/ Appended = formatted_line[1] \o NLNL
    /\ ProcessedHeading =>
          /\ formatted_line = << >>
          /\ ends_with(Appended,
                       << " " >> \o heading_regex_captures(LastTrimmed).text
                       \o NLNL)

\* C9 witness: a heading whose body text holds a shouted word has been
\* processed right after a paragraph line that holds one.
C9_Witness ==
    /\ i >= 2
    /\ ProcessedHeading
    /\ detect_and_format(heading_regex_captures(LastTrimmed).text)
         # heading_regex_captures(LastTrimmed).text
    /\ IsParagraphLine(lines[i - 1])
    /\ detect_and_format(trim(lines[i - 1])) # trim(lines[i - 1])

\* C10: a paragraph line processed in mode "p" appends its formatted text,
\* preceded by one space exactly when the accumulator is non-empty and does
\* not end with "\n\n", and nothing after it, and the mode stays "p"; one
\* processed in mode "h" appends its formatted text and "\n\n", and the
\* mode becomes "p".
C10_ParagraphAppend ==
    ProcessedParagraph =>
        /\ current_block_type = "p"
        /\ prev_block_type = "p" =>
              markdown = prev_markdown
                         \o ( IF prev_markdown # << >>
                                 /\ ~ ends_with(prev_markdown, NLNL)
                              THEN << " " >> ELSE << >> )
                         \o detect_and_format(LastTrimmed)
        /\ prev_block_type = "h" =>
              markdown = prev_markdown \o detect_and_format(LastTrimmed) \o NLNL

\* C10 witness: after a heading, three paragraph lines have been processed:
\* the first in mode "h", the second in mode "p" on an accumulator ending
\* with "\n\n", the third in mode "p" and joined with a space.
C10_Witness ==
    /\ i >= 4
    /\ ProcessedParagraph
    /\ prev_block_type = "p"
    /\ prev_markdown # << >>
    /\ ~ ends_with(prev_markdown, NLNL)
    /\ IsParagraphLine(lines[i - 1])
    /\ IsParagraphLine(lines[i - 2])
    /\ IsHeadingLine(lines[i - 3])

=============================================================================
